---------------------------- MODULE Spec2Model ----------------------------
(***************************************************************************)
(* A model of the vCard duplicate checkers of harperreed/vcard-tools:      *)
(*   src/vcf-dupe-checker-ai.py  (variant "ai": tiered, advisory gateway)  *)
(*   src/vcf-dupe-checker-ml.py  (variant "ml": auto-merge or ask user)    *)
(*                                                                         *)
(* One run is main(): Config is loaded, find_duplicates_ml scans the       *)
(* directory, process_duplicates walks the candidate pairs and, for each,  *)
(* decides, calls perform_merge, move_original_files and                   *)
(* keep_original_copy.  Every file-system call of a pair is one step, so   *)
(* the states between the steps (where the process may stop) are states    *)
(* of the model.                                                           *)
(*                                                                         *)
(* Files.  A basename is a number.  1..NumPlain are names without the      *)
(* "merged_" prefix, and "merged_" + n is n + NumPlain.  A file's content  *)
(* is the set of contacts folded into it: a contact is identified by the   *)
(* name of the file that held it when the run began, a file read from disk *)
(* holds its own contact, and a merged record holds the contacts of the    *)
(* two records it was merged from.  The empty set is "no such file".       *)
(*                                                                         *)
(* Scores.  A similarity or a threshold is a number of twentieths          *)
(* (0.8 is 16, 0.95 is 19, 1.0 is FullScale).                              *)
(*                                                                         *)
(* The other tools of the repository are modelled each on its own, with a  *)
(* record for the tool's state: src/vcf-chunker.py (split_vcard_file),     *)
(* src/vcf-sort.py (sort_vcards), src/vcf-curator.py (ContactManager) and  *)
(* src/vcf-cleanup.py (VCardCleaner).                                      *)
(***************************************************************************)
EXTENDS Integers, Sequences, FiniteSets, TLC

VARIABLES
    variant,        \* "ai" or "ml": which of the two programs runs
    config_file,    \* the YAML file's dict, or NoFile
    config,         \* Config.config once loaded
    active,         \* the scanned directory: basename -> content
    quar,           \* the merge directory (quarantine bucket): basename -> content
    quarDir,        \* os.makedirs(merge_dir) has run
    listdir,        \* the order in which os.listdir returns the directory
    cosine,         \* the similarity of two files' contents, by basenames
    file_paths,     \* find_duplicates_ml: the corpus in order
    duplicates,     \* find_duplicates_ml: the candidate pairs in iteration order
    pc,             \* where main()/process_duplicates stands
    idx,            \* index in duplicates of the pair being processed
    primary_vcard,  \* the record read for the current primary ({} is None)
    similar_vcard,  \* the record read for the current similar file
    cur,            \* what has happened to the current pair so far
    auto_merged,    \* process_duplicates' counters
    ai_merged,
    current_duplicate,
    evaluated,      \* how often each candidate pair has been classified
    quarantined,    \* original contents of the files moved so far, per pair
    orig,           \* the directory as it was when the run began
    vcard1,         \* merge_vcards: its first argument
    vcard2,         \* merge_vcards: its second argument
    merge_instructions, \* merge_vcards: its third argument
    merged,         \* merge_vcards: the record it returns
    ai_response,    \* get_merge_decision: what the gateway call gave
    decision,       \* get_merge_decision: what it returns
    vcard_files,    \* find_duplicates_ml: what read_vcard gives for each file
    scanned,        \* find_duplicates_ml: how many files its loop has read
    vcard_data,     \* find_duplicates_ml: the key info it feeds the vectorizer
    chunker,        \* vcf-chunker: the locals and files of split_vcard_file
    sorter,         \* vcf-sort: the folders and the stats of sort_vcards
    curator,        \* vcf-curator: the ContactManager, its folders and state file
    cleaner         \* vcf-cleanup: the VCardCleaner and its directories

vars == <<variant, config_file, config, active, quar, quarDir, listdir, cosine,
          file_paths, duplicates, pc, idx, primary_vcard, similar_vcard, cur,
          auto_merged, ai_merged, current_duplicate, evaluated, quarantined, orig,
          vcard1, vcard2, merge_instructions, merged, ai_response, decision,
          vcard_files, scanned, vcard_data, chunker, sorter, curator, cleaner>>

\* the variables of find_duplicates_ml's reading loop taken alone
corpusVars == <<vcard_files, scanned, vcard_data>>

\* the variables of the tools other than the duplicate checker
toolVars == <<chunker, sorter, curator, cleaner>>

\* the variables of a call of get_merge_decision taken alone
gatewayVars == <<ai_response, decision>>

\* the variables of a call of merge_vcards taken alone
mergeVars == <<vcard1, vcard2, merge_instructions, merged>>

\* the variables of a run of main()
runVars == <<variant, config_file, config, active, quar, quarDir, listdir, cosine,
             file_paths, duplicates, idx, primary_vcard, similar_vcard, cur,
             auto_merged, ai_merged, current_duplicate, evaluated, quarantined, orig>>

---------------------------------------------------------------------------
(* Bounds of the model *)

NumPlain == 3       \* basenames without the "merged_" prefix
MergedInputs == 1   \* "merged_"-prefixed basenames the directory may hold at the start
MaxFiles == 3       \* files in the scanned directory
Twins == 2          \* SpecCollide: files that lie beside their "merged_" twin
MaxCandidates == 3  \* SpecCollide: candidate pairs of a run
Levels == 7         \* scores and thresholds range over the top Levels+1 twentieths
MaxLines == 2       \* SpecMerge: content lines of one property in a vCard
NumValues == 2      \* SpecMerge: distinct non-empty texts of a property's value
MaxEntries == 3       \* SpecChunk: vCard entries of the input file
MaxEntrySize == 5     \* SpecChunk: size of an entry, in units
MaxChunkMb == 2       \* SpecChunk: the chunk size asked for, in megabytes
BytesPerMb == 2       \* SpecChunk: units in a megabyte
MaxSortFiles == 2     \* SpecSort: files of the source folder
MaxSortRuns == 2      \* SpecSort: calls of sort_vcards
MaxCleanFiles == 1    \* SpecClean: files of the directory
MaxCuratorFiles == 2  \* SpecCurator: files of the main directory
MaxCuratorRuns == 2   \* SpecCurator: runs of the tool
MaxCorpus == 2        \* SpecCorpus: files of the directory
MaxResponseLines == 2   \* SpecParse: lines of a gateway response after the verdict

(* Program constants, in twentieths *)
FullScale == 20             \* a cosine similarity is at most 1.0
DefaultSimilarity == 16     \* 'similarity_threshold': 0.8
DefaultAiDecision == 16     \* 'ai_decision_threshold': 0.8
DefaultAutoMergeMl == 19    \* 'auto_merge_threshold': 0.95 (ml variant only)

---------------------------------------------------------------------------
(* Names and contents *)

\* f"merged_{os.path.basename(primary_file)}"
MergedName(n) == n + NumPlain

InputNames == 1..(NumPlain + MergedInputs)
Names == 1..(3 * NumPlain)
Contents == SUBSET InputNames
NoRecord == {}

Scores == (FullScale - Levels)..FullScale

NoFile == [file |-> FALSE]

\* {**self.default_config, **user_config}: the right operand wins
DictMerge(d, u) ==
    [k \in (DOMAIN d) \cup (DOMAIN u) |-> IF k \in DOMAIN u THEN u[k] ELSE d[k]]

\* Config.default_config of each variant (thresholds only)
DefaultConfig(v) ==
    IF v = "ai"
    THEN [similarity_threshold |-> DefaultSimilarity,
          ai_decision_threshold |-> DefaultAiDecision]
    ELSE [similarity_threshold |-> DefaultSimilarity,
          auto_merge_threshold |-> DefaultAutoMergeMl]

\* Config.load_config: no file -> the defaults, else the defaults overlaid
LoadedConfig(v, f) ==
    IF f = NoFile THEN DefaultConfig(v) ELSE DictMerge(DefaultConfig(v), f)

\* Config.__getitem__: a missing key raises KeyError
HasKey(c, k) == k \in DOMAIN c

\* the properties merge_vcards copies, in its order: fn n email tel adr org title note
Fields == {"fn", "n", "email", "tel", "adr", "org", "title", "note"}

\* merge_instructions=None; "if merge_instructions and ..." reads None and {} alike
NoInstructions == << >>

\* the properties of a vCard the model keeps: those and the identifier UID,
\* which merge_vcards never reads or sets
Props == Fields \cup {"uid"}

\* a vCard with no content line: vobject.vCard()
NoCard == [f \in Props |-> << >>]

\* no gateway call has been made
NoResponse == [transport |-> "none", verdict |-> FALSE, lines |-> << >>]

\* get_merge_decision has not returned
NoDecision == [should_merge |-> FALSE, instructions |-> NoInstructions,
               outcome |-> "none"]

---------------------------------------------------------------------------
(* find_duplicates_ml *)

\* cosine_sim[i][j] of the corpus: the similarity of the i-th and j-th document
CosineSim(paths, sim, i, j) == sim[{paths[i], paths[j]}]

\* mutant of InnerLoop: the cutoff comparison made non-strict
RECURSIVE InnerLoopAtLeast(_, _, _, _, _)
InnerLoopAtLeast(paths, sim, thr, i, j) ==
    IF j > Len(paths) THEN << >>
    ELSE (IF CosineSim(paths, sim, i, j) >= thr
          THEN << [i |-> i, j |-> j, primary |-> paths[i], similar |-> paths[j],
                   similarity |-> CosineSim(paths, sim, i, j)] >>
          ELSE << >>)
         \o InnerLoopAtLeast(paths, sim, thr, i, j + 1)

\* for j in range(i+1, len(cosine_sim)): if sim > threshold: duplicates[...].append(...)
RECURSIVE InnerLoop(_, _, _, _, _)
InnerLoop(paths, sim, thr, i, j) ==
    IF j > Len(paths) THEN << >>
    ELSE (IF CosineSim(paths, sim, i, j) > thr
          THEN << [i |-> i, j |-> j, primary |-> paths[i], similar |-> paths[j],
                   similarity |-> CosineSim(paths, sim, i, j)] >>
          ELSE << >>)
         \o InnerLoop(paths, sim, thr, i, j + 1)

\* for i in range(len(cosine_sim)): the dict keeps its keys in insertion order,
\* so iterating duplicates.items() and each list visits the pairs in this order
RECURSIVE OuterLoop(_, _, _, _)
OuterLoop(paths, sim, thr, i) ==
    IF i > Len(paths) THEN << >>
    ELSE InnerLoop(paths, sim, thr, i, i + 1) \o OuterLoop(paths, sim, thr, i + 1)

\* the files of the directory that read_vcard can read, in os.listdir order
RECURSIVE Corpus(_, _)
Corpus(listing, dir) ==
    IF listing = << >> THEN << >>
    ELSE (IF dir[Head(listing)] # NoRecord THEN << Head(listing) >> ELSE << >>)
         \o Corpus(Tail(listing), dir)

FindDuplicatesMl(paths, sim, c) == OuterLoop(paths, sim, c["similarity_threshold"], 1)

---------------------------------------------------------------------------
(* Initial states *)

\* the injective sequences of length n over S: the orders os.listdir may return
InjSeqs(S, n) == {s \in [1..n -> S] : \A a, b \in 1..n : a # b => s[a] # s[b]}

Range(s) == {s[k] : k \in DOMAIN s}

Pairs(S) == {{a, b} : a, b \in S} \ {{a} : a \in S}

Keys == {"similarity_threshold", "ai_decision_threshold", "auto_merge_threshold"}

\* the YAML dicts that set any subset of the three thresholds to any level
ConfigFiles(L) == UNION {[K -> L] : K \in SUBSET Keys}

\* the thresholds of the specification's example: 0.7, 0.8, 0.95
ExampleConfig == [similarity_threshold |-> 14, ai_decision_threshold |-> 16,
                  auto_merge_threshold |-> 19]

\* one score per tier of ExampleConfig: at the cutoff, too dissimilar, advisory, auto
RunScores == {14, 15, 17, 20}

\* a tool that is not running
Idle == [pc |-> "idle"]

\* find_duplicates_ml's reading loop is not under way
NoCorpus ==
    /\ vcard_files = << >>
    /\ scanned = 0
    /\ vcard_data = << >>

\* none of the other tools is running
ToolsIdle ==
    /\ chunker = Idle
    /\ sorter = Idle
    /\ curator = Idle
    /\ cleaner = Idle

\* what every run of main() starts from
InitCommon ==
    /\ NoCorpus
    /\ ToolsIdle
    /\ variant \in {"ai", "ml"}
    /\ config = << >>
    /\ quar = [n \in Names |-> NoRecord]
    /\ quarDir = FALSE
    /\ file_paths = << >>
    /\ duplicates = << >>
    /\ pc = "config"
    /\ idx = 0
    /\ primary_vcard = NoRecord
    /\ similar_vcard = NoRecord
    /\ cur = << >>
    /\ auto_merged = 0
    /\ ai_merged = 0
    /\ current_duplicate = 0
    /\ evaluated = << >>
    /\ quarantined = << >>
    /\ orig = active
    /\ vcard1 = NoCard
    /\ vcard2 = NoCard
    /\ merge_instructions = NoInstructions
    /\ merged = NoCard
    /\ ai_response = NoResponse
    /\ decision = NoDecision

\* a directory of MaxFiles records, one of which may carry a "merged_" name
Init ==
    /\ config_file \in {NoFile, ExampleConfig}
    /\ listdir \in InjSeqs(InputNames, MaxFiles)
    /\ active = [n \in Names |-> IF n \in Range(listdir) THEN {n} ELSE NoRecord]
    /\ cosine \in [Pairs(Range(listdir)) -> RunScores]
    /\ InitCommon

\* a directory in which Twins records lie beside a record called "merged_" +
\* their name (what an earlier run that merged and then restored leaves behind);
\* every pair is either below the cutoff or in the tier that asks
InitCollide ==
    /\ config_file = ExampleConfig
    /\ listdir \in InjSeqs((1..Twins) \cup {MergedName(n) : n \in 1..Twins}, 2 * Twins)
    /\ active = [n \in Names |-> IF n \in Range(listdir) THEN {n} ELSE NoRecord]
    /\ cosine \in [Pairs(Range(listdir)) -> {14, 17}]
    /\ Cardinality({q \in Pairs(Range(listdir)) : cosine[q] > 14}) <= MaxCandidates
    /\ InitCommon

\* a directory of two records, any score, any thresholds in the YAML file
InitTier ==
    /\ config_file \in {NoFile} \cup ConfigFiles(Scores)
    /\ listdir \in {<<1, 2>>, <<2, 1>>}
    /\ active = [n \in Names |-> IF n \in Range(listdir) THEN {n} ELSE NoRecord]
    /\ cosine \in [Pairs(Range(listdir)) -> Scores]
    /\ InitCommon

\* a directory of exactly two records, one of which may be called "merged_" +
\* the other's name
InitTwo ==
    /\ config_file \in {NoFile, ExampleConfig}
    /\ listdir \in InjSeqs({1, 2, MergedName(1)}, 2)
    /\ active = [n \in Names |-> IF n \in Range(listdir) THEN {n} ELSE NoRecord]
    /\ cosine \in [Pairs(Range(listdir)) -> RunScores]
    /\ InitCommon

\* a directory of MaxFiles files, one of which read_vcard may fail to read
InitFind ==
    /\ config_file \in {NoFile, ExampleConfig}
    /\ listdir \in InjSeqs(1..MaxFiles, MaxFiles)
    /\ \E readable \in {Range(listdir)} \cup {Range(listdir) \ {n} : n \in Range(listdir)} :
           active = [n \in Names |-> IF n \in readable THEN {n} ELSE NoRecord]
    /\ cosine \in [Pairs(Range(listdir)) -> RunScores]
    /\ InitCommon

---------------------------------------------------------------------------
(* main() *)

\* config = Config(): load_config, no validation of the thresholds
LoadConfig ==
    /\ pc = "config"
    /\ config' = LoadedConfig(variant, config_file)
    /\ pc' = "scan"
    /\ UNCHANGED <<mergeVars, gatewayVars, corpusVars, toolVars>>
    /\ UNCHANGED <<variant, config_file, active, quar, quarDir, listdir, cosine,
                   file_paths, duplicates, idx, primary_vcard, similar_vcard, cur,
                   auto_merged, ai_merged, current_duplicate, evaluated,
                   quarantined, orig>>

\* duplicates = duplicate_finder.find_duplicates_ml(directory); if duplicates: ...
Scan ==
    /\ pc = "scan"
    /\ file_paths' = Corpus(listdir, active)
    /\ duplicates' = FindDuplicatesMl(file_paths', cosine, config)
    /\ evaluated' = [k \in 1..Len(duplicates') |-> 0]
    /\ quarantined' = [k \in 1..Len(duplicates') |-> {}]
    /\ pc' = IF duplicates' = << >> THEN "done" ELSE "process"
    /\ UNCHANGED <<mergeVars, gatewayVars, corpusVars, toolVars>>
    /\ UNCHANGED <<variant, config_file, config, active, quar, quarDir, listdir,
                   cosine, idx, primary_vcard, similar_vcard, cur, auto_merged,
                   ai_merged, current_duplicate, orig>>

---------------------------------------------------------------------------
(* process_duplicates *)

(* get_merge_decision.  The gateway call either raises (transport) or     *)
(* gives a text.  Of the text the model keeps whether its first line starts *)
(* with "1. yes" (verdict) and, of each later line, how many colons it has  *)
(* (2 stands for two or more), the text before the first colon (field) and  *)
(* the text after it (choice), both stripped and lower-cased.               *)

\* fields a line may name: one that merge_vcards knows, one that it does not
ResponseFields == {"fn", "nickname"}

\* choices a line may give: the two source names and something else
Choices == {"vcard1", "vcard2", "both"}

\* a line without a colon, and the lines with one colon or more
ResponseLines ==
    {[colons |-> 0, field |-> "", choice |-> ""]}
        \cup {[colons |-> c, field |-> f, choice |-> ch] :
                  c \in {1, 2}, f \in ResponseFields, ch \in Choices}

\* the texts of at most n lines after the verdict line
ResponseTexts(n) == UNION {[1..k -> ResponseLines] : k \in 0..n}

\* what client.chat.completions.create may do, with at most n lines of text
Responses(n) ==
    {[transport |-> "raise", verdict |-> FALSE, lines |-> << >>]}
        \cup {[transport |-> "ok", verdict |-> v, lines |-> t] :
                  v \in BOOLEAN, t \in ResponseTexts(n)}

\* for line in lines[1:]: if ':' in line: field, choice = line.split(':') ...
\* the unpacking raises ValueError when the line has more than one colon
RECURSIVE ParseLines(_, _, _)
ParseLines(lines, k, instr) ==
    IF k > Len(lines) THEN [raised |-> FALSE, instructions |-> instr]
    ELSE IF lines[k].colons = 0 THEN ParseLines(lines, k + 1, instr)
    ELSE IF lines[k].colons > 1 THEN [raised |-> TRUE, instructions |-> instr]
    ELSE IF lines[k].choice \in {"vcard1", "vcard2"}
    THEN ParseLines(lines, k + 1,
             [f \in DOMAIN instr \cup {lines[k].field} |->
                 IF f = lines[k].field THEN lines[k].choice ELSE instr[f]])
    ELSE ParseLines(lines, k + 1, instr)

\* mutant of MergeDecision: a response that cannot be parsed keeps its verdict
MergeDecisionKeepsVerdict(resp) ==
    IF resp.transport = "raise"
    THEN [should_merge |-> FALSE, instructions |-> NoInstructions, outcome |-> "raised"]
    ELSE IF ~resp.verdict
    THEN [should_merge |-> FALSE, instructions |-> NoInstructions, outcome |-> "no"]
    ELSE LET r == ParseLines(resp.lines, 1, << >>)
         IN  IF r.raised
             THEN [should_merge |-> TRUE, instructions |-> NoInstructions,
                   outcome |-> "unparsed"]
             ELSE [should_merge |-> TRUE, instructions |-> r.instructions,
                   outcome |-> "yes"]

\* what get_merge_decision returns for a response: (False, None) from the
\* except clause, else the verdict with the instructions ({} for a no)
MergeDecision(resp) ==
    IF resp.transport = "raise"
    THEN [should_merge |-> FALSE, instructions |-> NoInstructions, outcome |-> "raised"]
    ELSE IF ~resp.verdict
    THEN [should_merge |-> FALSE, instructions |-> NoInstructions, outcome |-> "no"]
    ELSE LET r == ParseLines(resp.lines, 1, << >>)
         IN  IF r.raised
             THEN [should_merge |-> FALSE, instructions |-> NoInstructions,
                   outcome |-> "unparsed"]
             ELSE [should_merge |-> TRUE, instructions |-> r.instructions,
                   outcome |-> "yes"]

\* the responses a run of process_duplicates is given: a transport failure, a
\* no, a bare yes, a yes naming a source, a yes with a line of two colons
RunResponses ==
    {r \in Responses(1) :
        \A k \in DOMAIN r.lines :
            r.lines[k].field = "fn" /\ r.lines[k].choice = "vcard2"}

\* the state of one pair at the top of the inner loop body
NewPair ==
    [tier |-> "none", gateway_calls |-> 0, asked |-> 0, should_merge |-> FALSE,
     attempted |-> FALSE, instructions |-> NoInstructions, outcome |-> "none",
     merge_successful |-> FALSE, gateway |-> "none", move1 |-> "none", move2 |-> "none",
     restore |-> "none"]

\* mutant of DecisionTierAi: the auto-merge comparison made strict
DecisionTierAiStrict(similarity, c) ==
    IF similarity > c["auto_merge_threshold"] THEN "auto"
    ELSE IF similarity >= c["ai_decision_threshold"] THEN "advisory"
    ELSE "skip"

\* ai variant: if similarity >= auto_merge_threshold / elif >= ai_decision_threshold / else
DecisionTierAi(similarity, c) ==
    IF similarity >= c["auto_merge_threshold"] THEN "auto"
    ELSE IF similarity >= c["ai_decision_threshold"] THEN "advisory"
    ELSE "skip"

\* ml variant: if similarity > auto_merge_threshold / else input(...)
DecisionTierMl(similarity, c) ==
    IF similarity > c["auto_merge_threshold"] THEN "auto" ELSE "ask"

Pair == duplicates[idx]

\* the next iteration: the inner loop's next tuple, or the outer loop's next key
AfterPair ==
    IF idx + 1 <= Len(duplicates) /\ duplicates[idx + 1].primary = Pair.primary
    THEN "similar" ELSE "primary"

\* the first pair of the next key of the dict
RECURSIVE NextKey(_, _)
NextKey(dups, k) ==
    IF k + 1 <= Len(dups) /\ dups[k + 1].primary = dups[k].primary
    THEN NextKey(dups, k + 1) ELSE k + 1

\* after move_original_files: "if not merge_successful: keep_original_copy"
AfterMove(c) == IF c.merge_successful THEN "pair_done" ELSE "restore"

\* merge_dir = ...; os.makedirs(merge_dir, exist_ok=True)
StartProcessing ==
    /\ pc = "process"
    /\ quarDir' = TRUE
    /\ idx' = 1
    /\ pc' = "primary"
    /\ UNCHANGED <<mergeVars, gatewayVars, corpusVars, toolVars>>
    /\ UNCHANGED <<variant, config_file, config, active, quar, listdir, cosine,
                   file_paths, duplicates, primary_vcard, similar_vcard, cur,
                   auto_merged, ai_merged, current_duplicate, evaluated,
                   quarantined, orig>>

\* primary_vcard = read_vcard(primary_file); if not primary_vcard: continue
ReadPrimary ==
    /\ pc = "primary"
    /\ idx <= Len(duplicates)
    /\ primary_vcard' = active[Pair.primary]
    /\ IF primary_vcard' = NoRecord
       THEN idx' = NextKey(duplicates, idx) /\ pc' = "primary"
       ELSE idx' = idx /\ pc' = "similar"
    /\ UNCHANGED <<mergeVars, gatewayVars, corpusVars, toolVars>>
    /\ UNCHANGED <<variant, config_file, config, active, quar, quarDir, listdir,
                   cosine, file_paths, duplicates, similar_vcard, cur, auto_merged,
                   ai_merged, current_duplicate, evaluated, quarantined, orig>>

\* the loop is over: the final summary is printed
SummaryCounts ==
    IF variant = "ai"
    THEN [auto_merged |-> auto_merged, ai_merged |-> ai_merged,
          total_duplicates |-> Len(duplicates)]
    ELSE [auto_merged |-> auto_merged, total_duplicates |-> Len(duplicates)]

\* the loops of process_duplicates are over: the summary is printed
Summary ==
    /\ pc = "primary"
    /\ idx > Len(duplicates)
    /\ pc' = "done"
    /\ UNCHANGED <<mergeVars, gatewayVars, corpusVars, toolVars>>
    /\ UNCHANGED <<variant, config_file, config, active, quar, quarDir, listdir,
                   cosine, file_paths, duplicates, idx, primary_vcard, similar_vcard,
                   cur, auto_merged, ai_merged, current_duplicate, evaluated,
                   quarantined, orig>>

\* ai variant, the head of the inner loop's body:
\*   current_duplicate += 1; similar_vcard = read_vcard(similar_file)
\*   if not similar_vcard: continue
\* and then the pair falls into its tier;
\* self.config['auto_merge_threshold'] raises KeyError when the key is missing
ReadSimilarAi ==
    /\ pc = "similar"
    /\ variant = "ai"
    /\ current_duplicate' = current_duplicate + 1
    /\ similar_vcard' = active[Pair.similar]
    /\ IF similar_vcard' = NoRecord
       THEN /\ idx' = idx + 1
            /\ pc' = AfterPair
            /\ UNCHANGED <<cur, evaluated>>
       ELSE IF ~HasKey(config, "auto_merge_threshold")
       THEN /\ pc' = "crashed"
            /\ UNCHANGED <<idx, cur, evaluated>>
       ELSE LET t == DecisionTierAi(Pair.similarity, config) IN
            /\ cur' = [NewPair EXCEPT !.tier = t]
            /\ evaluated' = [evaluated EXCEPT ![idx] = @ + 1]
            /\ idx' = idx
            /\ pc' = CASE t = "auto" -> "merge"
                       [] t = "advisory" -> "gateway"
                       [] OTHER -> "move1"
    /\ UNCHANGED <<mergeVars, gatewayVars, corpusVars, toolVars>>
    /\ UNCHANGED <<variant, config_file, config, active, quar, quarDir, listdir,
                   cosine, file_paths, duplicates, primary_vcard, auto_merged,
                   ai_merged, quarantined, orig>>

\* ml variant, the head of the inner loop's body: the same read, and then above
\* the threshold merge_choice = 'y' and auto_merged += 1, else the user is asked
ReadSimilarMl ==
    /\ pc = "similar"
    /\ variant = "ml"
    /\ current_duplicate' = current_duplicate + 1
    /\ similar_vcard' = active[Pair.similar]
    /\ IF similar_vcard' = NoRecord
       THEN /\ idx' = idx + 1
            /\ pc' = AfterPair
            /\ UNCHANGED <<cur, evaluated, auto_merged>>
       ELSE LET t == DecisionTierMl(Pair.similarity, config) IN
            /\ cur' = [NewPair EXCEPT !.tier = t, !.should_merge = (t = "auto")]
            /\ evaluated' = [evaluated EXCEPT ![idx] = @ + 1]
            /\ auto_merged' = IF t = "auto" THEN auto_merged + 1 ELSE auto_merged
            /\ idx' = idx
            /\ pc' = IF t = "auto" THEN "merge" ELSE "ask"
    /\ UNCHANGED <<mergeVars, gatewayVars, corpusVars, toolVars>>
    /\ UNCHANGED <<variant, config_file, config, active, quar, quarDir, listdir,
                   cosine, file_paths, duplicates, primary_vcard, ai_merged,
                   quarantined, orig>>

\* merge_choice = input("Do you want to merge these vCards? (y/n): ").lower()
AskUser ==
    /\ pc = "ask"
    /\ \E merge_choice \in {"y", "n"} :
        /\ cur' = [cur EXCEPT !.asked = @ + 1, !.should_merge = (merge_choice = "y")]
        /\ pc' = IF merge_choice = "y" THEN "merge" ELSE "move1"
    /\ UNCHANGED <<mergeVars, gatewayVars, corpusVars, toolVars>>
    /\ UNCHANGED <<variant, config_file, config, active, quar, quarDir, listdir,
                   cosine, file_paths, duplicates, idx, primary_vcard, similar_vcard,
                   auto_merged, ai_merged, current_duplicate, evaluated,
                   quarantined, orig>>

\* AIAssistant.get_merge_decision: a verdict parsed from the response, or
\* (False, None, str(e)) when the call or the parsing raises
GetMergeDecision ==
    /\ pc = "gateway"
    /\ \E resp \in RunResponses :
        LET d == MergeDecision(resp) IN
        /\ cur' = [cur EXCEPT !.gateway_calls = @ + 1,
                              !.gateway = d.outcome,
                              !.should_merge = d.should_merge,
                              !.instructions = d.instructions]
        /\ pc' = IF d.should_merge THEN "merge" ELSE "move1"
    /\ UNCHANGED <<mergeVars, gatewayVars, corpusVars, toolVars>>
    /\ UNCHANGED <<variant, config_file, config, active, quar, quarDir, listdir,
                   cosine, file_paths, duplicates, idx, primary_vcard, similar_vcard,
                   auto_merged, ai_merged, current_duplicate, evaluated,
                   quarantined, orig>>

\* what the record merge_vcards returns is made of: both inputs
MergedContent(v1, v2) == v1 \cup v2

\* perform_merge: merge_vcards, serialize_vcard, open(merged_path, 'w').write(...);
\* True only when the file was written.  The ai variant counts a written merge.
PerformMerge ==
    /\ pc = "merge"
    /\ \E outcome \in {"written", "merge_failed", "serialize_failed"} :
        /\ cur' = [cur EXCEPT !.attempted = TRUE, !.outcome = outcome,
                              !.merge_successful = (outcome = "written")]
        /\ active' = IF outcome = "written"
                     THEN [active EXCEPT ![MergedName(Pair.primary)] =
                               MergedContent(primary_vcard, similar_vcard)]
                     ELSE active
        /\ auto_merged' = IF variant = "ai" /\ cur.tier = "auto" /\ outcome = "written"
                          THEN auto_merged + 1 ELSE auto_merged
        /\ ai_merged' = IF variant = "ai" /\ cur.tier = "advisory" /\ outcome = "written"
                        THEN ai_merged + 1 ELSE ai_merged
    /\ pc' = "move1"
    /\ UNCHANGED <<mergeVars, gatewayVars, corpusVars, toolVars>>
    /\ UNCHANGED <<variant, config_file, config, quar, quarDir, listdir, cosine,
                   file_paths, duplicates, idx, primary_vcard, similar_vcard,
                   current_duplicate, evaluated, quarantined, orig>>

\* os.rename(src, dst) and shutil.copy2(src, dst) raise when src is missing, and
\* the file system may refuse them for a reason of its own (another device,
\* a permission): "ok", "missing" or "refused"
FileOutcomes(dir, n) == IF dir[n] = NoRecord THEN {"missing"} ELSE {"ok", "refused"}

\* the destination directory after a rename or a copy of n: n is replaced
Placed(src, dst, n) == [dst EXCEPT ![n] = src[n]]

\* mutant of Removed: the rename leaves the file where it was
RemovedKeeps(src, n) == src

\* the source directory after a rename of n
Removed(src, n) == [src EXCEPT ![n] = NoRecord]

\* move_original_files, first rename: the primary.  When it raises, the second
\* rename is not reached.
MovePrimary ==
    /\ pc = "move1"
    /\ \E res \in FileOutcomes(active, Pair.primary) :
        /\ cur' = [cur EXCEPT !.move1 = res]
        /\ IF res = "ok"
           THEN /\ quar' = Placed(active, quar, Pair.primary)
                /\ active' = Removed(active, Pair.primary)
                /\ quarantined' = [quarantined EXCEPT ![idx] = @ \cup {Pair.primary}]
                /\ pc' = "move2"
           ELSE /\ UNCHANGED <<quar, active, quarantined>>
                /\ pc' = AfterMove(cur)
    /\ UNCHANGED <<mergeVars, gatewayVars, corpusVars, toolVars>>
    /\ UNCHANGED <<variant, config_file, config, quarDir, listdir, cosine,
                   file_paths, duplicates, idx, primary_vcard, similar_vcard,
                   auto_merged, ai_merged, current_duplicate, evaluated, orig>>

\* move_original_files, second rename: the similar file
MoveSimilar ==
    /\ pc = "move2"
    /\ \E res \in FileOutcomes(active, Pair.similar) :
        /\ cur' = [cur EXCEPT !.move2 = res]
        /\ IF res = "ok"
           THEN /\ quar' = Placed(active, quar, Pair.similar)
                /\ active' = Removed(active, Pair.similar)
                /\ quarantined' = [quarantined EXCEPT ![idx] = @ \cup {Pair.similar}]
           ELSE UNCHANGED <<quar, active, quarantined>>
    /\ pc' = AfterMove(cur)
    /\ UNCHANGED <<mergeVars, gatewayVars, corpusVars, toolVars>>
    /\ UNCHANGED <<variant, config_file, config, quarDir, listdir, cosine,
                   file_paths, duplicates, idx, primary_vcard, similar_vcard,
                   auto_merged, ai_merged, current_duplicate, evaluated, orig>>

\* keep_original_copy: shutil.copy2(merge_dir/basename(primary), primary_file)
KeepOriginalCopy ==
    /\ pc = "restore"
    /\ \E res \in FileOutcomes(quar, Pair.primary) :
        /\ active' = IF res = "ok" THEN Placed(quar, active, Pair.primary) ELSE active
        /\ cur' = [cur EXCEPT !.restore = res]
    /\ pc' = "pair_done"
    /\ UNCHANGED <<mergeVars, gatewayVars, corpusVars, toolVars>>
    /\ UNCHANGED <<variant, config_file, config, quar, quarDir, listdir, cosine,
                   file_paths, duplicates, idx, primary_vcard, similar_vcard,
                   auto_merged, ai_merged, current_duplicate, evaluated,
                   quarantined, orig>>

\* the end of the inner loop's body: on to the next pair
NextPair ==
    /\ pc = "pair_done"
    /\ idx' = idx + 1
    /\ pc' = AfterPair
    /\ UNCHANGED <<mergeVars, gatewayVars, corpusVars, toolVars>>
    /\ UNCHANGED <<variant, config_file, config, active, quar, quarDir, listdir,
                   cosine, file_paths, duplicates, primary_vcard, similar_vcard, cur,
                   auto_merged, ai_merged, current_duplicate, evaluated,
                   quarantined, orig>>

Next ==
    \/ LoadConfig
    \/ Scan
    \/ StartProcessing
    \/ ReadPrimary
    \/ Summary
    \/ ReadSimilarAi
    \/ ReadSimilarMl
    \/ AskUser
    \/ GetMergeDecision
    \/ PerformMerge
    \/ MovePrimary
    \/ MoveSimilar
    \/ KeepOriginalCopy
    \/ NextPair

Spec == Init /\ [][Next]_vars

\* the same program on the directories of InitCollide and of InitTier
SpecCollide == InitCollide /\ [][Next]_vars

SpecTier == InitTier /\ [][Next]_vars

\* a run on a directory of two records
SpecTwo == InitTwo /\ [][Next]_vars

\* find_duplicates_ml alone: main() up to the scan
NextFind == LoadConfig \/ Scan

SpecFind == InitFind /\ [][NextFind]_vars

---------------------------------------------------------------------------
(* merge_vcards *)

(* A vCard is its contents: for each property the list of its content      *)
(* lines' values, in order.  A value is a text, numbered; 0 is the empty   *)
(* string.  "native" tells a parsed object (vobject's Address of an ADR    *)
(* line, Name of an N line) from a plain str: str() of an object is its    *)
(* text rendering, a str, and str() of a str is that str.                  *)

\* for prop in ['email', 'tel', 'adr']
MultiValued == {"email", "tel", "adr"}

\* the properties whose parsed value is an object, not a str
ObjectValued == {"n", "adr"}

\* str(v.value)
Str(v) == [native |-> FALSE, text |-> v.text]

\* a value as vobject parses it from a content line of property p
Parsed(p, t) == [native |-> p \in ObjectValued, text |-> t]

\* hasattr(vcard, prop): the property has a content line
HasAttr(vcard, prop) == vcard[prop] # << >>

\* getattr(vcard, prop): the first content line of the property
GetAttr(vcard, prop) == vcard[prop][1]

\* mutant of CopyDefault: vcard2's line is preferred
CopyDefaultSecondFirst(v1, v2, prop) ==
    IF HasAttr(v2, prop) THEN << GetAttr(v2, prop) >>
    ELSE IF HasAttr(v1, prop) THEN << GetAttr(v1, prop) >>
    ELSE << >>

\* default branch of copy_prop: vcard1's line if it has one, else vcard2's
CopyDefault(v1, v2, prop) ==
    IF HasAttr(v1, prop) THEN << GetAttr(v1, prop) >>
    ELSE IF HasAttr(v2, prop) THEN << GetAttr(v2, prop) >>
    ELSE << >>

\* mutant of CopyProp: a named source that lacks the property falls back to
\* the default branch
CopyPropFallsBack(v1, v2, mi, prop) ==
    IF mi # NoInstructions /\ prop \in DOMAIN mi
    THEN IF mi[prop] = "vcard1" /\ HasAttr(v1, prop) THEN << GetAttr(v1, prop) >>
         ELSE IF mi[prop] = "vcard2" /\ HasAttr(v2, prop) THEN << GetAttr(v2, prop) >>
         ELSE CopyDefault(v1, v2, prop)
    ELSE CopyDefault(v1, v2, prop)

\* copy_prop(prop): what setattr(merged, prop, ...) leaves as merged's lines
CopyProp(v1, v2, mi, prop) ==
    IF mi # NoInstructions /\ prop \in DOMAIN mi
    THEN IF mi[prop] = "vcard1"
         THEN (IF HasAttr(v1, prop) THEN << GetAttr(v1, prop) >> ELSE << >>)
         ELSE IF mi[prop] = "vcard2"
         THEN (IF HasAttr(v2, prop) THEN << GetAttr(v2, prop) >> ELSE << >>)
         ELSE CopyDefault(v1, v2, prop)
    ELSE CopyDefault(v1, v2, prop)

\* mutant of UnionValues: the second record's values are left out
UnionValuesFirstOnly(v1, v2, prop) ==
    {Str(v1[prop][k]) : k \in DOMAIN v1[prop]}

\* values = set(); values.update(str of vcard1's lines); values.update(vcard2's)
UnionValues(v1, v2, prop) ==
    {Str(v1[prop][k]) : k \in DOMAIN v1[prop]}
        \cup {Str(v2[prop][k]) : k \in DOMAIN v2[prop]}

\* the orders in which "for value in values" may walk the set
Orders(S) == InjSeqs(S, Cardinality(S))

\* guess_name_from_email: the capitalized parts of the local part; of the
\* empty string, the empty string
GuessNameFromEmail(e) == IF e = 0 THEN 0 ELSE NumValues + e

\* extract_key_info(vcard): name and email (tel is not used by merge_vcards)
ExtractKeyInfo(vcard) ==
    LET name == IF HasAttr(vcard, "fn") THEN GetAttr(vcard, "fn").text ELSE 0
        email == IF HasAttr(vcard, "email") THEN GetAttr(vcard, "email").text ELSE 0
    IN  [name |-> IF name = 0 /\ email # 0 THEN GuessNameFromEmail(email) ELSE name,
         email |-> email]

\* if not hasattr(merged, 'fn'): merged.add('fn'); fn.value = name if name else email
FnFallback(m) ==
    IF HasAttr(m, "fn") THEN m
    ELSE LET info == ExtractKeyInfo(m)
         IN  [m EXCEPT !["fn"] = << [native |-> FALSE,
                                     text |-> IF info.name # 0 THEN info.name
                                              ELSE info.email] >>]

\* the record merge_vcards builds when the sets are walked in the orders ord
MergedRecord(v1, v2, mi, ord) ==
    FnFallback([p \in Props |->
                   IF p \in MultiValued
                   THEN CopyProp(v1, v2, mi, p) \o ord[p]
                   ELSE IF p \in Fields THEN CopyProp(v1, v2, mi, p)
                   ELSE NoCard[p]])

\* the texts a content line of property p may carry (fn and email may be empty)
Texts(p) == IF p \in {"fn", "email"} THEN 0..NumValues ELSE 1..NumValues

\* the lists of at most n parsed values of property p
Lines(p, n) == UNION {[1..k -> {Parsed(p, t) : t \in Texts(p)}] : k \in 0..n}

\* a vCard that has lines of the property focus and at most one line, of text
\* 1, of the property other
Card(focus, other, fl, ol) ==
    [p \in Props |-> IF p = focus THEN fl ELSE IF p = other THEN ol ELSE << >>]

\* what an instruction may say of a property: the two sources, or anything else
Sources == {"vcard1", "vcard2", "merge"}

\* a call merge_vcards(vcard1, vcard2, merge_instructions): two vCards that
\* differ in one property and in whether they have a name (or, when that
\* property is the name, an email); the ml variant takes no instructions
InitMerge ==
    /\ NoCorpus
    /\ ToolsIdle
    /\ variant \in {"ai", "ml"}
    /\ \E focus \in Props :
         LET other == IF focus = "fn" THEN "email" ELSE "fn" IN
         /\ \E fl \in Lines(focus, MaxLines), ol \in {<< >>, << Parsed(other, 1) >>} :
                vcard1 = Card(focus, other, fl, ol)
         /\ \E fl \in Lines(focus, MaxLines), ol \in {<< >>, << Parsed(other, 1) >>} :
                vcard2 = Card(focus, other, fl, ol)
         /\ merge_instructions \in
                IF variant = "ml" THEN {NoInstructions}
                ELSE {NoInstructions} \cup [{focus} -> Sources]
    /\ merged = NoCard
    /\ ai_response = NoResponse
    /\ decision = NoDecision
    /\ pc = "merge_call"
    /\ config_file = NoFile
    /\ config = << >>
    /\ active = [n \in Names |-> NoRecord]
    /\ quar = [n \in Names |-> NoRecord]
    /\ quarDir = FALSE
    /\ listdir = << >>
    /\ cosine = << >>
    /\ file_paths = << >>
    /\ duplicates = << >>
    /\ idx = 0
    /\ primary_vcard = NoRecord
    /\ similar_vcard = NoRecord
    /\ cur = << >>
    /\ auto_merged = 0
    /\ ai_merged = 0
    /\ current_duplicate = 0
    /\ evaluated = << >>
    /\ quarantined = << >>
    /\ orig = active

\* merge_vcards(vcard1, vcard2, merge_instructions) runs and returns merged
MergeVcards ==
    /\ pc = "merge_call"
    /\ \E oe \in Orders(UnionValues(vcard1, vcard2, "email")),
          ot \in Orders(UnionValues(vcard1, vcard2, "tel")),
          oa \in Orders(UnionValues(vcard1, vcard2, "adr")) :
          merged' = MergedRecord(vcard1, vcard2, merge_instructions,
                                 [email |-> oe, tel |-> ot, adr |-> oa])
    /\ pc' = "merge_return"
    /\ UNCHANGED <<vcard1, vcard2, merge_instructions>>
    /\ UNCHANGED gatewayVars
    /\ UNCHANGED runVars
    /\ UNCHANGED <<corpusVars, toolVars>>

NextMerge == MergeVcards

\* one call of merge_vcards
SpecMerge == InitMerge /\ [][NextMerge]_vars

---------------------------------------------------------------------------
(* get_merge_decision taken alone *)

\* no run of main() is under way
NoRun ==
    /\ config_file = NoFile
    /\ config = << >>
    /\ active = [n \in Names |-> NoRecord]
    /\ quar = [n \in Names |-> NoRecord]
    /\ quarDir = FALSE
    /\ listdir = << >>
    /\ cosine = << >>
    /\ file_paths = << >>
    /\ duplicates = << >>
    /\ idx = 0
    /\ primary_vcard = NoRecord
    /\ similar_vcard = NoRecord
    /\ cur = << >>
    /\ auto_merged = 0
    /\ ai_merged = 0
    /\ current_duplicate = 0
    /\ evaluated = << >>
    /\ quarantined = << >>
    /\ orig = active

\* a call get_merge_decision(vcard1, vcard2, similarity) about to get any
\* response of at most MaxResponseLines lines
InitParse ==
    /\ NoCorpus
    /\ ToolsIdle
    /\ variant = "ai"
    /\ ai_response \in Responses(MaxResponseLines)
    /\ decision = NoDecision
    /\ pc = "gateway_call"
    /\ vcard1 = NoCard
    /\ vcard2 = NoCard
    /\ merge_instructions = NoInstructions
    /\ merged = NoCard
    /\ NoRun

\* get_merge_decision runs and returns
GetMergeDecisionCall ==
    /\ pc = "gateway_call"
    /\ decision' = MergeDecision(ai_response)
    /\ pc' = "gateway_return"
    /\ UNCHANGED ai_response
    /\ UNCHANGED mergeVars
    /\ UNCHANGED runVars
    /\ UNCHANGED <<corpusVars, toolVars>>

NextParse == GetMergeDecisionCall

\* one call of get_merge_decision
SpecParse == InitParse /\ [][NextParse]_vars

---------------------------------------------------------------------------
(* find_duplicates_ml's reading loop taken alone *)

\* no record is being merged and no gateway call is under way
NoCalls ==
    /\ vcard1 = NoCard
    /\ vcard2 = NoCard
    /\ merge_instructions = NoInstructions
    /\ merged = NoCard
    /\ ai_response = NoResponse
    /\ decision = NoDecision

\* read_vcard: the parsed record, or None when reading or parsing raised
ReadVcard(ok, vcard) == [ok |-> ok, vcard |-> IF ok THEN vcard ELSE NoCard]

\* the records of the directory: at most one FN line and at most one EMAIL
\* line each (other properties do not enter the comparison name)
CorpusCards ==
    {Card("fn", "email", fl, el) : fl \in Lines("fn", 1), el \in Lines("email", 1)}

\* a directory of at most MaxCorpus .vcf files, about to be read
InitCorpus ==
    /\ \E k \in 0..MaxCorpus :
          vcard_files \in [1..k -> {ReadVcard(TRUE, c) : c \in CorpusCards}
                                      \cup {ReadVcard(FALSE, NoCard)}]
    /\ scanned = 0
    /\ vcard_data = << >>
    /\ pc = "read_files"
    /\ variant \in {"ai", "ml"}
    /\ NoCalls
    /\ NoRun
    /\ ToolsIdle

\* one turn of "for filename in os.listdir(directory)": the record, if it
\* could be read, gives one entry of vcard_data
ReadFile ==
    /\ pc = "read_files"
    /\ scanned < Len(vcard_files)
    /\ scanned' = scanned + 1
    /\ vcard_data' = IF vcard_files[scanned + 1].ok
                      THEN Append(vcard_data,
                                  ExtractKeyInfo(vcard_files[scanned + 1].vcard))
                      ELSE vcard_data
    /\ UNCHANGED <<pc, vcard_files>>
    /\ UNCHANGED <<runVars, mergeVars, gatewayVars, toolVars>>

\* the loop is over: "if not vcard_data: return {}", else the entries go to
\* the vectorizer
FeedVectorizer ==
    /\ pc = "read_files"
    /\ scanned = Len(vcard_files)
    /\ pc' = IF vcard_data = << >> THEN "no_data" ELSE "vectorize"
    /\ UNCHANGED <<corpusVars, runVars, mergeVars, gatewayVars, toolVars>>

NextCorpus == ReadFile \/ FeedVectorizer

\* find_duplicates_ml reads one directory
SpecCorpus == InitCorpus /\ [][NextCorpus]_vars

---------------------------------------------------------------------------
(* vcf-chunker: split_vcard_file *)
(*                                                                         *)
(* An entry of the input is its position in the list split_into_vcards     *)
(* returns, and vcards gives each entry's size; sizes are counted in units *)
(* of which BytesPerMb make a megabyte.  A chunk file is the list of the   *)
(* entries written to it, and the empty list is "no such file" (the code   *)
(* writes no empty chunk).                                                 *)

\* the duplicate checker is not running
NoDupeChecker ==
    /\ variant = "ml"
    /\ pc = "idle"
    /\ NoRun
    /\ NoCalls
    /\ NoCorpus

\* the numbers a chunk file can carry
ChunkNumbers == 1..(MaxEntries + 1)

\* the input files: at most MaxEntries entries of at most MaxEntrySize units
Inputs == UNION {[1..k -> 1..MaxEntrySize] : k \in 0..MaxEntries}

\* chunk_size = chunk_size_mb * 1024 * 1024
ChunkSize(chunk_size_mb) == chunk_size_mb * BytesPerMb

\* mutant of StartsNewChunk: the size of the entry at hand is not counted
StartsNewChunkLate(current_size, vcard_size, chunk_size, current_chunk) ==
    current_size > chunk_size /\ current_chunk # << >>

\* if current_size + vcard_size > chunk_size and current_chunk
StartsNewChunk(current_size, vcard_size, chunk_size, current_chunk) ==
    current_size + vcard_size > chunk_size /\ current_chunk # << >>

\* write_chunk(chunk, contacts_chunk_<number>.vcf): mode 'w' replaces the file
WriteChunk(output, number, chunk) == [output EXCEPT ![number] = chunk]

\* a call split_vcard_file(input_file, output_directory, chunk_size_mb) into
\* an output directory without chunk files
InitChunk ==
    /\ \E mb \in 0..MaxChunkMb, input \in Inputs :
          chunker = [pc |-> "call", chunk_size_mb |-> mb, vcards |-> input,
                     k |-> 1, current_chunk |-> << >>, current_size |-> 0,
                     chunk_number |-> 1,
                     output |-> [n \in ChunkNumbers |-> << >>]]
    /\ sorter = Idle
    /\ curator = Idle
    /\ cleaner = Idle
    /\ NoDupeChecker

\* the entry of split_vcard_file: a chunk size that is not positive raises
\* ValueError, else the input is read and split
SplitCall ==
    /\ chunker.pc = "call"
    /\ chunker' = [chunker EXCEPT !.pc = IF chunker.chunk_size_mb <= 0
                                         THEN "raised" ELSE "loop"]
    /\ UNCHANGED <<sorter, curator, cleaner>>
    /\ UNCHANGED <<pc, runVars, mergeVars, gatewayVars, corpusVars>>

\* one turn of "for vcard in vcards"
SplitVcard ==
    /\ chunker.pc = "loop"
    /\ chunker.k <= Len(chunker.vcards)
    /\ LET vcard_size == chunker.vcards[chunker.k]
           chunk_size == ChunkSize(chunker.chunk_size_mb)
       IN  chunker' =
             IF StartsNewChunk(chunker.current_size, vcard_size, chunk_size,
                               chunker.current_chunk)
             THEN [chunker EXCEPT
                     !.output = WriteChunk(chunker.output, chunker.chunk_number,
                                           chunker.current_chunk),
                     !.current_chunk = << chunker.k >>,
                     !.current_size = vcard_size,
                     !.chunk_number = chunker.chunk_number + 1,
                     !.k = chunker.k + 1]
             ELSE [chunker EXCEPT
                     !.current_chunk = Append(chunker.current_chunk, chunker.k),
                     !.current_size = chunker.current_size + vcard_size,
                     !.k = chunker.k + 1]
    /\ UNCHANGED <<sorter, curator, cleaner>>
    /\ UNCHANGED <<pc, runVars, mergeVars, gatewayVars, corpusVars>>

\* after the loop: "if current_chunk:" the last chunk is written
WriteLastChunk ==
    /\ chunker.pc = "loop"
    /\ chunker.k > Len(chunker.vcards)
    /\ chunker' =
          [chunker EXCEPT
             !.pc = "done",
             !.output = IF chunker.current_chunk # << >>
                        THEN WriteChunk(chunker.output, chunker.chunk_number,
                                        chunker.current_chunk)
                        ELSE chunker.output]
    /\ UNCHANGED <<sorter, curator, cleaner>>
    /\ UNCHANGED <<pc, runVars, mergeVars, gatewayVars, corpusVars>>

NextChunk == SplitCall \/ SplitVcard \/ WriteLastChunk

\* one call of split_vcard_file
SpecChunk == InitChunk /\ [][NextChunk]_vars

---------------------------------------------------------------------------
(* vcf-sort: sort_vcards *)
(*                                                                         *)
(* A file of a folder is what reading it gives: a record with contact      *)
(* information ("info"), a record without ("bare"), a .vcf file that       *)
(* cannot be read or parsed ("broken"), a file whose name does not end in  *)
(* .vcf ("other"), or no file ("absent").  sort_vcards is called up to     *)
(* MaxSortRuns times on the same folders, and returned keeps what each     *)
(* call was given and gave back.                                           *)

SortNames == 1..MaxSortFiles

SortKinds == {"info", "bare", "broken", "other"}

\* a folder without files
EmptyFolder == [f \in SortNames |-> "absent"]

\* stats = {"total_files": 0, "moved_files": 0, "errors": 0}
NoStats == [total_files |-> 0, moved_files |-> 0, errors |-> 0]

\* what the try block does with a .vcf file: readOne or has_contact_info
\* raises, the record is kept, the move is only logged (dry run), done, or
\* raises
SortOutcome(kind, dry_run, moves) ==
    IF kind = "broken" THEN "error"
    ELSE IF kind = "info" THEN "kept"
    ELSE IF dry_run THEN "would_move"
    ELSE IF moves THEN "moved"
    ELSE "error"

\* mutant of CountFile: a dry run does not count the files it would move
CountFileMovedOnly(stats, outcome) ==
    [total_files |-> stats.total_files + 1,
     moved_files |-> stats.moved_files + (IF outcome = "moved" THEN 1 ELSE 0),
     errors |-> stats.errors + (IF outcome = "error" THEN 1 ELSE 0)]

\* the counters after a .vcf file
CountFile(stats, outcome) ==
    [total_files |-> stats.total_files + 1,
     moved_files |-> stats.moved_files
                       + (IF outcome \in {"moved", "would_move"} THEN 1 ELSE 0),
     errors |-> stats.errors + (IF outcome = "error" THEN 1 ELSE 0)]

\* a source folder of at most MaxSortFiles files and a destination folder
\* that is missing or empty
InitSort ==
    /\ \E src \in [SortNames -> SortKinds \cup {"absent"}], there \in BOOLEAN :
          sorter = [pc |-> "call", source |-> src, exists |-> there,
                    destination |-> EmptyFolder, dry_run |-> FALSE,
                    listing |-> << >>, k |-> 1, stats |-> NoStats,
                    source0 |-> src, exists0 |-> there,
                    destination0 |-> EmptyFolder, returned |-> << >>]
    /\ chunker = Idle
    /\ curator = Idle
    /\ cleaner = Idle
    /\ NoDupeChecker

\* sort_vcards(source_folder, destination_folder, dry_run) is called: the
\* destination folder is made unless it exists or the run is dry, and the
\* source folder is listed
SortCall ==
    /\ sorter.pc = "call"
    /\ \E dry \in BOOLEAN :
         LET present == {f \in SortNames : sorter.source[f] # "absent"} IN
         \E order \in InjSeqs(present, Cardinality(present)) :
            sorter' = [sorter EXCEPT
                         !.pc = "loop",
                         !.dry_run = dry,
                         !.source0 = sorter.source,
                         !.exists0 = sorter.exists,
                         !.destination0 = sorter.destination,
                         !.exists = sorter.exists \/ ~dry,
                         !.listing = order,
                         !.k = 1,
                         !.stats = NoStats]
    /\ UNCHANGED <<chunker, curator, cleaner>>
    /\ UNCHANGED <<pc, runVars, mergeVars, gatewayVars, corpusVars>>

\* one turn of "for filename in os.listdir(source_folder)"
SortFile ==
    /\ sorter.pc = "loop"
    /\ sorter.k <= Len(sorter.listing)
    /\ LET filename == sorter.listing[sorter.k]
           kind == sorter.source[filename]
       IN  IF kind = "other"
           THEN sorter' = [sorter EXCEPT !.k = sorter.k + 1]
           ELSE \E moves \in BOOLEAN :
                  LET outcome == SortOutcome(kind, sorter.dry_run, moves) IN
                  sorter' =
                    [sorter EXCEPT
                       !.k = sorter.k + 1,
                       !.stats = CountFile(sorter.stats, outcome),
                       !.source = IF outcome = "moved"
                                  THEN [sorter.source EXCEPT ![filename] = "absent"]
                                  ELSE sorter.source,
                       !.destination = IF outcome = "moved"
                                       THEN [sorter.destination EXCEPT
                                               ![filename] = kind]
                                       ELSE sorter.destination]
    /\ UNCHANGED <<chunker, curator, cleaner>>
    /\ UNCHANGED <<pc, runVars, mergeVars, gatewayVars, corpusVars>>

\* return stats; the tool may then be run again on the same folders
SortReturn ==
    /\ sorter.pc = "loop"
    /\ sorter.k > Len(sorter.listing)
    /\ LET result == Append(sorter.returned,
                            [dry_run |-> sorter.dry_run, stats |-> sorter.stats,
                             source0 |-> sorter.source0,
                             exists0 |-> sorter.exists0,
                             destination0 |-> sorter.destination0,
                             source |-> sorter.source,
                             exists |-> sorter.exists,
                             destination |-> sorter.destination])
       IN  sorter' = [sorter EXCEPT
                        !.pc = IF Len(result) < MaxSortRuns THEN "call" ELSE "exit",
                        !.returned = result]
    /\ UNCHANGED <<chunker, curator, cleaner>>
    /\ UNCHANGED <<pc, runVars, mergeVars, gatewayVars, corpusVars>>

NextSort == SortCall \/ SortFile \/ SortReturn

\* up to MaxSortRuns calls of sort_vcards on the same folders
SpecSort == InitSort /\ [][NextSort]_vars

---------------------------------------------------------------------------
(* vcf-cleanup: VCardCleaner *)
(*                                                                         *)
(* A file is what VCard.load and the checks of process_vcard see of it:    *)
(* its kind ("zero_byte": size 0; "unread": some bytes but no content,     *)
(* reading raised; "card": content; "other": no .vcf name; "absent") and,  *)
(* of a card, whether vobject parsed it, which attributes the parsed       *)
(* record has (contact: email or tel), whether the text search finds both  *)
(* a name or organisation and a contact (text_ok), and whether a keyword   *)
(* occurs in the content.                                                  *)

CleanNames == 1..MaxCleanFiles

\* a file of the given kind that is not a card
PlainFile(kind) ==
    [kind |-> kind, parsed |-> FALSE, fn |-> FALSE, n |-> FALSE, org |-> FALSE,
     contact |-> FALSE, text_ok |-> FALSE, keyword |-> FALSE]

\* the files with content
CleanCards ==
    [kind : {"card"}, parsed : BOOLEAN, fn : BOOLEAN, n : BOOLEAN, org : BOOLEAN,
     contact : BOOLEAN, text_ok : BOOLEAN, keyword : BOOLEAN]

\* has_attribute: self.is_valid and hasattr(self.vobject, attr)
HasAttribute(c, attr) == c.parsed /\ c[attr]

\* is_empty_card
IsEmptyCard(c) ==
    ~((HasAttribute(c, "n") \/ HasAttribute(c, "org")) /\ HasAttribute(c, "contact"))

\* is_valid_card
IsValidCard(c) ==
    HasAttribute(c, "fn") \/ (HasAttribute(c, "org") /\ HasAttribute(c, "contact"))

\* text_search_move_action
TextSearchMoveAction(c) ==
    IF ~c.text_ok THEN [should_move |-> TRUE, move_reason |-> "empty"]
    ELSE IF c.keyword THEN [should_move |-> TRUE, move_reason |-> "keyword"]
    ELSE [should_move |-> FALSE, move_reason |-> ""]

\* determine_move_action
DetermineMoveAction(c) ==
    IF c.parsed /\ IsValidCard(c)
    THEN IF IsEmptyCard(c) THEN [should_move |-> TRUE, move_reason |-> "empty"]
         ELSE IF c.keyword THEN [should_move |-> TRUE, move_reason |-> "keyword"]
         ELSE [should_move |-> FALSE, move_reason |-> ""]
    ELSE TextSearchMoveAction(c)

\* the counters of cleanup_vcards
NoCounters ==
    [total_files |-> 0, zero_byte_moved |-> 0, empty_content_skipped |-> 0,
     parse_error_processed |-> 0, empty_card_moved |-> 0,
     keyword_match_moved |-> 0, user_kept |-> 0]

\* process_vcard(vcard, trash_dir) for a file c, when the user would answer
\* answer and a move would succeed or raise (moves): whether the user was
\* asked, whether the file is moved, and the counter that is incremented
\* ("" for none; a move that raises leaves process_vcard before any counter)
ProcessVcardResult(c, auto_delete, answer, moves) ==
    IF c.kind = "zero_byte"
    THEN [asked |-> FALSE, moved |-> moves,
          counter |-> IF moves THEN "zero_byte_moved" ELSE ""]
    ELSE IF c.kind = "unread"
    THEN [asked |-> FALSE, moved |-> FALSE, counter |-> "empty_content_skipped"]
    ELSE LET action == DetermineMoveAction(c) IN
         IF ~action.should_move
         THEN [asked |-> FALSE, moved |-> FALSE, counter |-> ""]
         ELSE IF auto_delete \/ answer
         THEN [asked |-> ~auto_delete, moved |-> moves,
               counter |-> IF ~moves THEN ""
                           ELSE IF action.move_reason = "empty"
                           THEN "empty_card_moved" ELSE "keyword_match_moved"]
         ELSE [asked |-> TRUE, moved |-> FALSE, counter |-> "user_kept"]

\* cleanup_vcards(directory) about to run on a directory of at most
\* MaxCleanFiles files, with an empty trash directory
InitClean ==
    /\ \E dir \in [CleanNames -> CleanCards \cup {PlainFile("zero_byte"),
                         PlainFile("unread"), PlainFile("other"),
                         PlainFile("absent")}],
          auto \in BOOLEAN :
          cleaner = [pc |-> "call", auto_delete |-> auto, directory |-> dir,
                     trash |-> [f \in CleanNames |-> PlainFile("absent")],
                     listing |-> << >>, k |-> 1, counters |-> NoCounters,
                     confirmed |-> {}, directory0 |-> dir]
    /\ chunker = Idle
    /\ sorter = Idle
    /\ curator = Idle
    /\ NoDupeChecker

\* cleanup_vcards: the trash directory is made and the directory is listed
CleanupCall ==
    /\ cleaner.pc = "call"
    /\ LET present == {f \in CleanNames : cleaner.directory[f].kind # "absent"} IN
       \E order \in InjSeqs(present, Cardinality(present)) :
          cleaner' = [cleaner EXCEPT !.pc = "loop", !.listing = order]
    /\ UNCHANGED <<chunker, sorter, curator>>
    /\ UNCHANGED <<pc, runVars, mergeVars, gatewayVars, corpusVars>>

\* one turn of "for filename in os.listdir(directory)": a .vcf file is
\* counted, loaded and given to process_vcard, whose counters are added
ProcessVcard ==
    /\ cleaner.pc = "loop"
    /\ cleaner.k <= Len(cleaner.listing)
    /\ LET filename == cleaner.listing[cleaner.k]
           c == cleaner.directory[filename]
       IN  IF c.kind = "other"
           THEN cleaner' = [cleaner EXCEPT !.k = cleaner.k + 1]
           ELSE \E answer \in BOOLEAN, moves \in BOOLEAN :
                  LET r == ProcessVcardResult(c, cleaner.auto_delete, answer, moves)
                      counted == [cleaner.counters EXCEPT
                                    !.total_files = cleaner.counters.total_files + 1]
                  IN  cleaner' =
                        [cleaner EXCEPT
                           !.k = cleaner.k + 1,
                           !.counters = IF r.counter = "" THEN counted
                                        ELSE [counted EXCEPT
                                                ![r.counter] = counted[r.counter] + 1],
                           !.confirmed = IF r.asked /\ answer
                                         THEN cleaner.confirmed \cup {filename}
                                         ELSE cleaner.confirmed,
                           !.directory = IF r.moved
                                         THEN [cleaner.directory EXCEPT
                                                 ![filename] = PlainFile("absent")]
                                         ELSE cleaner.directory,
                           !.trash = IF r.moved
                                     THEN [cleaner.trash EXCEPT ![filename] = c]
                                     ELSE cleaner.trash]
    /\ UNCHANGED <<chunker, sorter, curator>>
    /\ UNCHANGED <<pc, runVars, mergeVars, gatewayVars, corpusVars>>

\* print_summary
CleanupSummary ==
    /\ cleaner.pc = "loop"
    /\ cleaner.k > Len(cleaner.listing)
    /\ cleaner' = [cleaner EXCEPT !.pc = "done"]
    /\ UNCHANGED <<chunker, sorter, curator>>
    /\ UNCHANGED <<pc, runVars, mergeVars, gatewayVars, corpusVars>>

NextClean == CleanupCall \/ ProcessVcard \/ CleanupSummary

\* one call of cleanup_vcards
SpecClean == InitClean /\ [][NextClean]_vars

---------------------------------------------------------------------------
(* vcf-curator: ContactManager *)
(*                                                                         *)
(* A file of the main directory is a contact that can be read ("vcf"), a   *)
(* .vcf file that process_contact cannot read or that has no FN            *)
(* ("broken"), a file without a .vcf name ("other"), or "absent".  The     *)
(* state file is the pair of lists json.dump wrote, or missing.  The tool  *)
(* is run up to MaxCuratorRuns times; events keeps, run by run, which file *)
(* was presented and which key was pressed on it.                          *)

CuratorNames == 1..MaxCuratorFiles

\* default_state = {'processed_files': [], 'skipped_files': []}
DefaultState == [processed_files |-> << >>, skipped_files |-> << >>]

\* no state file has been written yet
NoStateFile == [exists |-> FALSE, content |-> DefaultState]

\* load_state: the lists of the state file, or the default state
LoadState(state_file) ==
    IF state_file.exists THEN state_file.content ELSE DefaultState

\* mutant of SaveState: the state file is left as it is
SaveStateNever(state_file, state) == state_file

\* save_state: json.dump(self.state, f)
SaveState(state_file, state) == [exists |-> TRUE, content |-> state]

\* the keys process_contact accepts
CuratorChoices == {"k", "m", "s", "q"}

\* the first run of the tool on a main directory of at most MaxCuratorFiles
\* files, with no state file
InitCurator ==
    /\ \E dir \in [CuratorNames -> {"vcf", "broken", "other", "absent"}] :
          curator = [pc |-> "start", run |-> 0, main_dir |-> dir,
                     secondary_dir |-> [f \in CuratorNames |-> "absent"],
                     state_file |-> NoStateFile, state |-> DefaultState,
                     processed_files |-> {}, skipped_files |-> {},
                     listing |-> << >>, k |-> 1, filename |-> 0,
                     events |-> << >>]
    /\ chunker = Idle
    /\ sorter = Idle
    /\ cleaner = Idle
    /\ NoDupeChecker

\* a run begins: ContactManager() loads the state, sort_contacts builds its
\* two sets and lists the main directory
CuratorStart ==
    /\ curator.pc \in {"start", "quit", "raised", "completed"}
    /\ curator.run < MaxCuratorRuns
    /\ LET state == LoadState(curator.state_file)
           present == {f \in CuratorNames : curator.main_dir[f] # "absent"}
       IN  \E order \in InjSeqs(present, Cardinality(present)) :
             curator' = [curator EXCEPT
                           !.pc = "loop",
                           !.run = curator.run + 1,
                           !.state = state,
                           !.processed_files = Range(state.processed_files),
                           !.skipped_files = Range(state.skipped_files),
                           !.listing = order,
                           !.k = 1]
    /\ UNCHANGED <<chunker, sorter, cleaner>>
    /\ UNCHANGED <<pc, runVars, mergeVars, gatewayVars, corpusVars>>

\* one turn of "for filename in os.listdir(self.main_dir)" up to the moment
\* process_contact waits for a key: a file that is filtered out is passed
\* over, a file that cannot be read raises, any other is presented
PresentContact ==
    /\ curator.pc = "loop"
    /\ curator.k <= Len(curator.listing)
    /\ LET filename == curator.listing[curator.k] IN
       curator' =
         IF \/ curator.main_dir[filename] = "other"
            \/ filename \in curator.processed_files
            \/ filename \in curator.skipped_files
         THEN [curator EXCEPT !.k = curator.k + 1]
         ELSE IF curator.main_dir[filename] = "broken"
         THEN [curator EXCEPT !.pc = "raised"]
         ELSE [curator EXCEPT
                 !.pc = "present",
                 !.filename = filename,
                 !.events = Append(curator.events,
                                   [run |-> curator.run, file |-> filename,
                                    kind |-> "presented", done |-> TRUE])]
    /\ UNCHANGED <<chunker, sorter, cleaner>>
    /\ UNCHANGED <<pc, runVars, mergeVars, gatewayVars, corpusVars>>

\* a key is pressed: q returns False and sort_contacts returns; m moves the
\* file (the move may raise, which ends the run); m, s and k append the
\* file to a list of the state, which save_state writes
ChooseAction ==
    /\ curator.pc = "present"
    /\ \E choice \in CuratorChoices, moves \in BOOLEAN :
         LET filename == curator.filename
             done == choice # "m" \/ moves
             event == [run |-> curator.run, file |-> filename,
                       kind |-> choice, done |-> done]
             state == IF choice = "s"
                      THEN [curator.state EXCEPT
                              !.skipped_files = Append(@, filename)]
                      ELSE [curator.state EXCEPT
                              !.processed_files = Append(@, filename)]
         IN  curator' =
               IF choice = "q"
               THEN [curator EXCEPT !.pc = "quit",
                                    !.events = Append(curator.events, event)]
               ELSE IF ~done
               THEN [curator EXCEPT !.pc = "raised",
                                    !.events = Append(curator.events, event)]
               ELSE [curator EXCEPT
                       !.pc = "loop",
                       !.k = curator.k + 1,
                       !.events = Append(curator.events, event),
                       !.main_dir = IF choice = "m"
                                    THEN [curator.main_dir EXCEPT
                                            ![filename] = "absent"]
                                    ELSE curator.main_dir,
                       !.secondary_dir = IF choice = "m"
                                         THEN [curator.secondary_dir EXCEPT
                                                 ![filename] = "vcf"]
                                         ELSE curator.secondary_dir,
                       !.state = state,
                       !.state_file = SaveState(curator.state_file, state)]
    /\ UNCHANGED <<chunker, sorter, cleaner>>
    /\ UNCHANGED <<pc, runVars, mergeVars, gatewayVars, corpusVars>>

\* the loop is over: "All contacts have been processed."
CuratorCompleted ==
    /\ curator.pc = "loop"
    /\ curator.k > Len(curator.listing)
    /\ curator' = [curator EXCEPT !.pc = "completed"]
    /\ UNCHANGED <<chunker, sorter, cleaner>>
    /\ UNCHANGED <<pc, runVars, mergeVars, gatewayVars, corpusVars>>

NextCurator == CuratorStart \/ PresentContact \/ ChooseAction \/ CuratorCompleted

\* up to MaxCuratorRuns runs of the tool sharing one state file
SpecCurator == InitCurator /\ [][NextCurator]_vars

---------------------------------------------------------------------------
(* Properties of a run *)

\* contact c has a record somewhere: a file of the directory or of the bucket
\* that is its original or a merged record made from it
Survives(c) == \E n \in Names : c \in active[n] \/ c \in quar[n]

\* no file of either directory holds anything
NothingMoved == active = orig /\ quar = [n \in Names |-> NoRecord]

\* the three thresholds are set and auto_merge > ai_decision > similarity
ValidThresholds(c) ==
    /\ Keys \subseteq DOMAIN c
    /\ c["similarity_threshold"] < c["ai_decision_threshold"]
    /\ c["ai_decision_threshold"] < c["auto_merge_threshold"]

\* the file system refused no rename and no copy of the current pair
NothingRefused == cur.move1 # "refused" /\ cur.move2 # "refused" /\ cur.restore # "refused"

\* C1 (the claim as stated; the code violates it): when the processing of a pair
\* is complete, each of its two original contacts still has a record, as a copy
\* or folded into a merged file, in the directory or in the quarantine bucket.
NoLoss ==
    pc = "pair_done" => Survives(Pair.primary) /\ Survives(Pair.similar)

\* C2 (the claim as stated, for the pairs whose renames and copy the file system
\* did not refuse; the code violates it): when the processing of a pair is
\* complete the directory holds the merged file if the merge was written, and
\* otherwise the primary's file.
LiveRepresentative ==
    (pc = "pair_done" /\ NothingRefused) =>
        IF cur.merge_successful
        THEN active[MergedName(Pair.primary)] # NoRecord
        ELSE active[Pair.primary] # NoRecord

\* C3 (the claim as stated; the code violates it): in every state, a candidate
\* pair of which a file has been moved to the quarantine bucket has a surviving
\* record of at least one of its two contacts.
QuarantinedPairSurvives ==
    \A k \in DOMAIN quarantined :
        quarantined[k] # {} =>
            Survives(duplicates[k].primary) \/ Survives(duplicates[k].similar)

\* C4 (the claim as stated; the code violates it): at the end of the run every
\* candidate pair found by find_duplicates_ml has been classified exactly once.
EveryPairEvaluatedOnce ==
    pc = "done" => \A k \in DOMAIN evaluated : evaluated[k] = 1

\* C5 (the claim as stated, for the pairs whose renames the file system did not
\* refuse; the code violates it): both renames of a processed pair are
\* attempted, and when its merged file was written neither original is left in
\* the directory.
OriginalsLeaveActive ==
    (pc = "pair_done" /\ NothingRefused) =>
        /\ cur.move1 # "none"
        /\ cur.move2 # "none"
        /\ cur.merge_successful =>
              active[Pair.primary] = NoRecord /\ active[Pair.similar] = NoRecord

\* C6: in the ai variant with auto_merge > ai_decision > similarity, a pair
\* scoring at least auto_merge is merged with no instructions and without a
\* gateway call; one scoring in [ai_decision, auto_merge) costs exactly one
\* gateway call and perform_merge runs iff the verdict was yes; one scoring below
\* ai_decision costs no call and writes no merged file.
TieredDecision ==
    (variant = "ai" /\ pc = "pair_done" /\ ValidThresholds(config)) =>
        LET s == Pair.similarity
            auto == config["auto_merge_threshold"]
            ai == config["ai_decision_threshold"]
        IN  /\ s >= auto =>
                 /\ cur.gateway_calls = 0
                 /\ cur.attempted
                 /\ cur.instructions = NoInstructions
            /\ (ai <= s /\ s < auto) =>
                 /\ cur.gateway_calls = 1
                 /\ cur.attempted <=> cur.should_merge
                 /\ cur.merge_successful => cur.should_merge
            /\ s < ai =>
                 /\ cur.gateway_calls = 0
                 /\ ~cur.attempted
                 /\ active[MergedName(Pair.primary)] = NoRecord

\* C6 witness: an advisory-tier pair that the gateway said to merge, merged
TieredDecisionWitness ==
    /\ variant = "ai"
    /\ pc = "pair_done"
    /\ ValidThresholds(config)
    /\ config["ai_decision_threshold"] <= Pair.similarity
    /\ Pair.similarity < config["auto_merge_threshold"]
    /\ cur.gateway_calls = 1
    /\ cur.should_merge
    /\ cur.merge_successful

\* C7 (the claim as stated; the ml variant violates it): in both variants a
\* score equal to auto_merge_threshold is merged without asking the user or the
\* gateway, in the ai variant a score equal to ai_decision_threshold goes to the
\* gateway, and no candidate scores exactly similarity_threshold.
BoundaryGoesUp ==
    /\ pc = "pair_done" =>
          /\ Pair.similarity = config["auto_merge_threshold"] =>
                cur.tier = "auto" /\ cur.asked = 0 /\ cur.gateway_calls = 0
          /\ (variant = "ai" /\ Pair.similarity = config["ai_decision_threshold"]
                /\ Pair.similarity < config["auto_merge_threshold"]) =>
                cur.tier = "advisory" /\ cur.gateway_calls = 1
    /\ pc \notin {"config", "scan"} =>
          \A k \in DOMAIN duplicates :
              duplicates[k].similarity # config["similarity_threshold"]

\* C8 (the claim as stated; the code violates it): in the ai variant, once
\* Config is loaded with thresholds that are missing or out of order the run
\* does not begin: nothing is scanned, no quarantine directory is made and no
\* file is written or moved.
InvalidConfigRejected ==
    (variant = "ai" /\ pc # "config" /\ ~ValidThresholds(config)) =>
        /\ file_paths = << >>
        /\ duplicates = << >>
        /\ ~quarDir
        /\ NothingMoved

\* C9: find_duplicates_ml reports the pair of corpus positions (i, j) iff i < j
\* and its score is above similarity_threshold, and reports no unordered pair
\* twice.
CandidateSet ==
    pc \notin {"config", "scan"} =>
        LET n == Len(file_paths)
            thr == config["similarity_threshold"]
            Reported(i, j) == \E k \in DOMAIN duplicates :
                                  duplicates[k].i = i /\ duplicates[k].j = j
        IN  /\ \A i, j \in 1..n :
                  Reported(i, j) <=> (i < j /\ CosineSim(file_paths, cosine, i, j) > thr)
            /\ \A k \in DOMAIN duplicates :
                  /\ duplicates[k].primary = file_paths[duplicates[k].i]
                  /\ duplicates[k].similar = file_paths[duplicates[k].j]
                  /\ duplicates[k].primary # duplicates[k].similar
                  /\ duplicates[k].similarity > thr
            /\ \A k, l \in DOMAIN duplicates :
                  k # l => {duplicates[k].primary, duplicates[k].similar}
                             # {duplicates[l].primary, duplicates[l].similar}

\* C9 witness: a corpus with two reported pairs and a pair scoring exactly the
\* threshold, which is left out
CandidateSetWitness ==
    /\ pc \notin {"config", "scan"}
    /\ Len(duplicates) >= 2
    /\ \E i, j \in 1..Len(file_paths) :
          /\ i < j
          /\ CosineSim(file_paths, cosine, i, j) = config["similarity_threshold"]

\* the decision about the current pair has been taken
Decided ==
    /\ cur.tier # "none"
    /\ cur.tier = "advisory" => cur.gateway_calls = 1
    /\ cur.tier = "ask" => cur.asked = 1
    /\ cur.should_merge => cur.attempted

\* the basenames the directory holds
ActiveFiles == {n \in Names : active[n] # NoRecord}

TwoRecordsAutoMerged ==
    (pc = "done" /\ Len(duplicates) = 1 /\ cur.tier = "auto"
       /\ cur.merge_successful /\ cur.move1 = "ok" /\ cur.move2 = "ok") =>
        /\ quar[duplicates[1].primary] = orig[duplicates[1].primary]
        /\ quar[duplicates[1].similar] = orig[duplicates[1].similar]
        /\ ActiveFiles = {MergedName(duplicates[1].primary)}

\* how many pairs of a run of one pair had a rename that failed
MoveFailures ==
    IF cur.move1 \in {"missing", "refused"} \/ cur.move2 \in {"missing", "refused"}
    THEN 1 ELSE 0

\* C19 (the claim as stated; the code violates it): at the end of a run of one
\* pair, a counter of the summary other than the number of candidates is the
\* number of pairs of which a rename failed.
RelocationFailureCounted ==
    (pc = "done" /\ DOMAIN cur # {}) =>
        \E k \in DOMAIN SummaryCounts \ {"total_duplicates"} :
            SummaryCounts[k] = MoveFailures

\* C20 (the claim as stated; the code violates it): when the summary is
\* printed, the inner loop has reached every candidate pair of the run.
EveryPairReached ==
    pc = "done" => current_duplicate = Len(duplicates)

\* C23 (the claim as stated; the code violates it): a step of perform_merge
\* that writes the merged file finds no file of that name in the directory.
NoOverwrite ==
    [][(pc = "merge" /\ cur'.outcome = "written") =>
           active[MergedName(Pair.primary)] = NoRecord]_vars

\* C26 (the claim as stated; the code violates it): between the steps of a
\* pair (after perform_merge, after each rename, before the restoring copy)
\* either both originals are in the directory, nothing of the pair is in the
\* bucket and there is no merged file, or there is a merged file and an
\* original is in the bucket.
CrashConfigurations ==
    pc \in {"move1", "move2", "restore"} =>
        LET hasMerged == active[MergedName(Pair.primary)] # NoRecord
            inBucket == quar[Pair.primary] # NoRecord \/ quar[Pair.similar] # NoRecord
            bothActive == active[Pair.primary] # NoRecord
                            /\ active[Pair.similar] # NoRecord
        IN  \/ bothActive /\ ~hasMerged /\ ~inBucket
            \/ hasMerged /\ inBucket

\* C28 (the claim as stated; the ml variant violates it): at the end of a run
\* of one pair, auto_merged is 1 exactly if the pair was of the auto tier and
\* its merged file was written, ai_merged is 1 exactly if it was of the
\* advisory tier and its merged file was written, and the two together do not
\* exceed the number of candidate pairs.
CountersMatchWrites ==
    (pc = "done" /\ DOMAIN cur # {}) =>
        /\ auto_merged = IF cur.tier = "auto" /\ cur.outcome = "written" THEN 1 ELSE 0
        /\ ai_merged = IF cur.tier = "advisory" /\ cur.outcome = "written" THEN 1 ELSE 0
        /\ auto_merged + ai_merged <= Len(duplicates)

---------------------------------------------------------------------------
(* Properties of merge_vcards *)

\* the values of property p of a record, each as its str()
ValueSet(vcard, p) == {Str(vcard[p][k]) : k \in DOMAIN vcard[p]}

Occurrences(lines, v) == Cardinality({k \in DOMAIN lines : Str(lines[k]) = v})

\* the properties copy_prop alone decides: fn, n, org, title, note
Scalars == Fields \ MultiValued

\* C11 (the claim as stated; the code violates it): in the record merge_vcards
\* returns no email, tel or adr value occurs twice: every value of the union
\* occurs exactly once.
NoRepeatedValues ==
    pc = "merge_return" =>
        \A p \in MultiValued :
            \A v \in ValueSet(vcard1, p) \cup ValueSet(vcard2, p) :
                Occurrences(merged[p], v) = 1

\* C12: for each scalar property, when the instruction names a source that has
\* the property the merged value is that source's value, and when the
\* instruction is empty or has no entry for the property the merged value is
\* the primary's if the primary has the property and else the secondary's.
ScalarResolution ==
    pc = "merge_return" =>
        \A p \in Scalars :
            /\ (p \in DOMAIN merge_instructions /\ merge_instructions[p] = "vcard1"
                  /\ HasAttr(vcard1, p)) => merged[p] = << GetAttr(vcard1, p) >>
            /\ (p \in DOMAIN merge_instructions /\ merge_instructions[p] = "vcard2"
                  /\ HasAttr(vcard2, p)) => merged[p] = << GetAttr(vcard2, p) >>
            /\ (p \notin DOMAIN merge_instructions /\ HasAttr(vcard1, p))
                  => merged[p] = << GetAttr(vcard1, p) >>
            /\ (p \notin DOMAIN merge_instructions /\ ~HasAttr(vcard1, p)
                  /\ HasAttr(vcard2, p)) => merged[p] = << GetAttr(vcard2, p) >>

\* C12 witness: both records have a scalar property with different values, the
\* instruction names vcard2, and the merged record has vcard2's value
ScalarResolutionWitness ==
    /\ pc = "merge_return"
    /\ \E p \in Scalars :
          /\ p \in DOMAIN merge_instructions
          /\ merge_instructions[p] = "vcard2"
          /\ HasAttr(vcard1, p)
          /\ HasAttr(vcard2, p)
          /\ GetAttr(vcard1, p) # GetAttr(vcard2, p)
          /\ merged[p] = << GetAttr(vcard2, p) >>

\* C13 (the claim as stated, for the records that have a name and at most one
\* line of each scalar property; the code violates it): merging a record with
\* itself under an empty instruction returns a record in which every property
\* but the identifier has the same values, each as often, as the input.
MergeIdempotent ==
    (pc = "merge_return" /\ vcard1 = vcard2 /\ merge_instructions = NoInstructions
       /\ HasAttr(vcard1, "fn") /\ \A q \in Scalars : Len(vcard1[q]) <= 1) =>
        \A p \in Fields :
            \A v \in ValueSet(merged, p) \cup ValueSet(vcard1, p) :
                Occurrences(merged[p], v) = Occurrences(vcard1[p], v)

\* C14 (the claim as stated; the code violates it): the record merge_vcards
\* returns has an identifier, and it is neither the primary's nor the
\* secondary's.
FreshIdentifier ==
    pc = "merge_return" =>
        /\ HasAttr(merged, "uid")
        /\ HasAttr(vcard1, "uid") => GetAttr(merged, "uid") # GetAttr(vcard1, "uid")
        /\ HasAttr(vcard2, "uid") => GetAttr(merged, "uid") # GetAttr(vcard2, "uid")

---------------------------------------------------------------------------
(* Properties of get_merge_decision *)

\* the lines of the response that name field f with one of the two sources
\* and nothing after it
WellFormedLines(resp, f) ==
    {k \in DOMAIN resp.lines :
        /\ resp.lines[k].colons = 1
        /\ resp.lines[k].field = f
        /\ resp.lines[k].choice \in {"vcard1", "vcard2"}}

\* the last of a non-empty set of line numbers
Last(K) == CHOOSE k \in K : \A l \in K : l <= k

\* C15: in the ai variant, once the gateway call of the run's one pair has
\* raised, or its response could not be parsed, should_merge is false,
\* perform_merge is not called and no merged file exists; and no pair of the advisory tier reaches perform_merge unless
\* get_merge_decision returned should_merge true for it.
GatewayFailureDeclines ==
    (variant = "ai" /\ DOMAIN cur # {}) =>
        /\ cur.gateway \in {"raised", "unparsed"} =>
              /\ ~cur.should_merge
              /\ ~cur.attempted
              /\ \A k \in DOMAIN duplicates :
                    active[MergedName(duplicates[k].primary)] = NoRecord
        /\ (cur.tier = "advisory" /\ cur.attempted) =>
              cur.gateway = "yes" /\ cur.should_merge

\* C15 witness: a pair of the advisory tier whose response said yes but could
\* not be parsed has been processed to its end
GatewayFailureDeclinesWitness ==
    /\ variant = "ai"
    /\ pc = "pair_done"
    /\ cur.tier = "advisory"
    /\ cur.gateway = "unparsed"
    /\ cur.move1 = "ok"
    /\ cur.move2 = "ok"

\* C16 (the claim as stated; the code violates it): for a response whose
\* verdict is yes, get_merge_decision returns should_merge true whatever the
\* later lines are, and for each field merge_vcards knows the returned
\* instruction is that of the last well-formed line naming it, or none.
DefensiveParsing ==
    (pc = "gateway_return" /\ ai_response.transport = "ok" /\ ai_response.verdict) =>
        /\ decision.should_merge
        /\ \A f \in Fields \cap ResponseFields :
              IF WellFormedLines(ai_response, f) = {}
              THEN f \notin DOMAIN decision.instructions
              ELSE /\ f \in DOMAIN decision.instructions
                   /\ decision.instructions[f] =
                        ai_response.lines[Last(WellFormedLines(ai_response, f))].choice

\* the record has a line of property p whose text is not empty
HasText(vcard, p) == \E k \in DOMAIN vcard[p] : vcard[p][k].text # 0

\* the instruction names, for property p, a source that has no p
NamedSourceLacks(p) ==
    /\ p \in DOMAIN merge_instructions
    /\ \/ merge_instructions[p] = "vcard1" /\ ~HasAttr(vcard1, p)
       \/ merge_instructions[p] = "vcard2" /\ ~HasAttr(vcard2, p)

\* C21 (the claim as stated, for inputs without an empty EMAIL line; the code
\* violates it): whenever one of the inputs has a non-empty name or an email,
\* the record merge_vcards returns has a name and it is not empty.
DisplayNameNonEmpty ==
    (pc = "merge_return"
       /\ (\A k \in DOMAIN vcard1["email"] : vcard1["email"][k].text # 0)
       /\ (\A l \in DOMAIN vcard2["email"] : vcard2["email"][l].text # 0)
       /\ (HasText(vcard1, "fn") \/ HasText(vcard2, "fn")
             \/ HasText(vcard1, "email") \/ HasText(vcard2, "email"))) =>
        HasAttr(merged, "fn") /\ GetAttr(merged, "fn").text # 0

\* C27 (the claim as stated; the code violates it for fn): when the instruction
\* names, for a scalar property, a source that lacks it, the merged record has
\* no line of that property.
NamedSourceLackingLeftOut ==
    pc = "merge_return" =>
        \A p \in Scalars : NamedSourceLacks(p) => merged[p] = << >>

\* C27 amended: when the instruction names, for a scalar property, a source
\* that lacks it, the merged record has no line of that property if it is n,
\* org, title or note; if it is fn, the merged record's fn is the name guessed
\* from the merged record's first email (empty without one), never the other
\* record's fn.
NamedSourceLackingNoFallback ==
    pc = "merge_return" =>
        \A p \in Scalars :
            NamedSourceLacks(p) =>
                IF p = "fn"
                THEN merged[p] =
                       << [native |-> FALSE,
                           text |-> GuessNameFromEmail(
                                      IF HasAttr(merged, "email")
                                      THEN GetAttr(merged, "email").text ELSE 0)] >>
                ELSE merged[p] = << >>

\* C27 witness: the instruction names vcard2 for a scalar property that only
\* vcard1 has, and the merged record is without it
NamedSourceLackingWitness ==
    /\ pc = "merge_return"
    /\ \E p \in Scalars \ {"fn"} :
          /\ p \in DOMAIN merge_instructions
          /\ merge_instructions[p] = "vcard2"
          /\ ~HasAttr(vcard2, p)
          /\ HasAttr(vcard1, p)
          /\ merged[p] = << >>


---------------------------------------------------------------------------
(* Properties of find_duplicates_ml's reading loop *)

\* C22 (the claim as stated; the code violates it): every entry that
\* find_duplicates_ml hands to the similarity computation has a comparison
\* name that is not empty.
ComparisonNameNonEmpty ==
    pc = "vectorize" => \A k \in DOMAIN vcard_data : vcard_data[k].name # 0

---------------------------------------------------------------------------
(* Properties of split_vcard_file *)

\* the numbers of the chunk files of the output directory
Written == {n \in ChunkNumbers : chunker.output[n] # << >>}

\* the chunk files 1..n, one after the other
RECURSIVE Joined(_)
Joined(n) == IF n = 0 THEN << >> ELSE Joined(n - 1) \o chunker.output[n]

\* the size of a list of entries
RECURSIVE SizeOf(_)
SizeOf(chunk) ==
    IF chunk = << >> THEN 0
    ELSE chunker.vcards[chunk[1]] + SizeOf(Tail(chunk))

\* C24: when split_vcard_file returns, the chunk files are numbered 1..n
\* without a gap, read in that order they hold every entry of the input once
\* and in input order, and a chunk is larger than chunk_size only if it is a
\* single entry.
ChunksPartitionInput ==
    chunker.pc = "done" =>
        /\ Written = 1..Cardinality(Written)
        /\ Joined(Cardinality(Written)) = [i \in 1..Len(chunker.vcards) |-> i]
        /\ \A n \in Written :
              \/ SizeOf(chunker.output[n]) <= ChunkSize(chunker.chunk_size_mb)
              \/ Len(chunker.output[n]) = 1

\* C24's case: a split that gave a chunk of several entries and, after it, a
\* chunk of one entry that alone exceeds chunk_size
ChunksPartitionInputWitness ==
    /\ chunker.pc = "done"
    /\ \E n \in Written : Len(chunker.output[n]) > 1
    /\ \E n \in Written :
          /\ n > 1
          /\ Len(chunker.output[n]) = 1
          /\ SizeOf(chunker.output[n]) > ChunkSize(chunker.chunk_size_mb)

---------------------------------------------------------------------------
(* Properties of sort_vcards *)

\* a returned dry run left both folders as it found them
DryRunFrame(r) ==
    r.dry_run => /\ r.source = r.source0
                 /\ r.destination = r.destination0
                 /\ r.exists = r.exists0

\* the calls that were dry and were followed by a real run
DryThenReal ==
    {i \in DOMAIN sorter.returned :
        /\ i + 1 \in DOMAIN sorter.returned
        /\ sorter.returned[i].dry_run
        /\ ~sorter.returned[i + 1].dry_run}

\* C25 (the claim as stated; it fails when a move of the real run raises): a
\* dry run moves no file and makes no folder, and the real run that follows
\* it on the same folders returns the same total_files and moved_files.
DryRunSameCounts ==
    /\ \A i \in DOMAIN sorter.returned : DryRunFrame(sorter.returned[i])
    /\ \A i \in DryThenReal :
          /\ sorter.returned[i].stats.total_files
                = sorter.returned[i + 1].stats.total_files
          /\ sorter.returned[i].stats.moved_files
                = sorter.returned[i + 1].stats.moved_files

\* C25 (amended): a dry run moves no file and makes no folder, and the real
\* run that follows it returns the same total_files; the dry run's
\* moved_files is the real run's moved_files plus the moves that raised in
\* the real run, which the real run counts as errors.
DryRunCountsUpToFailedMoves ==
    /\ \A i \in DOMAIN sorter.returned : DryRunFrame(sorter.returned[i])
    /\ \A i \in DryThenReal :
          LET dry == sorter.returned[i].stats
              real == sorter.returned[i + 1].stats
          IN  /\ dry.total_files = real.total_files
              /\ dry.moved_files = real.moved_files + (real.errors - dry.errors)

\* C25's case: a dry run that saw a folder to be made and files to move,
\* followed by a real run in which one move was done and one raised
DryRunCountsWitness ==
    \E i \in DryThenReal :
        /\ ~sorter.returned[i].exists0
        /\ sorter.returned[i].stats.moved_files = 2
        /\ sorter.returned[i + 1].stats.moved_files = 1
        /\ sorter.returned[i + 1].stats.errors = 1

---------------------------------------------------------------------------
(* Properties of VCardCleaner *)

\* C30 (the claim as stated; the code violates it for zero-byte files): a
\* file is in the trash directory only if auto_delete is configured or the
\* user confirmed the move of that file, and every other file is where it
\* was.
TrashOnlyWhenAllowed ==
    cleaner.pc \in {"loop", "done"} =>
        \A f \in CleanNames :
            (~cleaner.auto_delete /\ f \notin cleaner.confirmed) =>
                /\ cleaner.trash[f].kind = "absent"
                /\ cleaner.directory[f] = cleaner.directory0[f]

---------------------------------------------------------------------------
(* Properties of ContactManager *)

\* the files the persisted state records
Recorded ==
    Range(LoadState(curator.state_file).processed_files)
        \cup Range(LoadState(curator.state_file).skipped_files)

\* event i is keep, move or skip
IsDecision(i) == curator.events[i].kind \in {"k", "m", "s"}

\* run r is over
RunOver(r) ==
    curator.run > r \/ (curator.run = r /\ curator.pc \in {"quit", "raised", "completed"})

\* file f was presented in run r
PresentedIn(f, r) ==
    \E j \in DOMAIN curator.events :
        /\ curator.events[j].kind = "presented"
        /\ curator.events[j].file = f
        /\ curator.events[j].run = r

\* a quit on a file records nothing and stops the run
QuitStopsRun(i) ==
    curator.events[i].kind = "q" =>
        /\ \A j \in DOMAIN curator.events :
              j > i => curator.events[j].run > curator.events[i].run
        /\ (curator.run = curator.events[i].run) =>
              curator.events[i].file \notin Recorded

=============================================================================
